---- MODULE Spec2Model ----
(***************************************************************************)
(* Model of analysis/download.py (class DownloadSims): seed discovery, the *)
(* download queue, and the two transfer phases (parallel drain, serial     *)
(* retry).                                                                 *)
(*                                                                         *)
(* Strings are sequences of tokens.  A token is an atomic piece of text    *)
(* that no operation of the program splits: "/" is a token of its own, so  *)
(* os.path.join, str.startswith, removeprefix and the directory regular    *)
(* expression are computed on the token sequence as Python computes them   *)
(* on the characters.  The seed directory name '00000N' is the two tokens  *)
(* "0", "0000N" because the program lists the prefix 'VARIANT/0'.          *)
(***************************************************************************)
EXTENDS Integers, Sequences, FiniteSets, TLC

(***************************************************************************)
(* Bounds of the model.                                                    *)
(***************************************************************************)
\* seed lines a store may hold
MaxSeeds == 2
\* largest 'generations' value a metadata record may carry
MaxGen == 2
\* most CPUs os.cpu_count() reports for the machine
MaxCpus == 4
\* generations the seed line of a store has completed, in the whole runs of
\* SpecRun and SpecWorkflows
MaxDone == 1
\* files of a simOut directory that the store of a SpecRun run can deliver: the
\* first MaxHeld of SIM_FILES
MaxHeld == 1
\* queue_files calls a client makes before the transfer phases (SpecAPI)
MaxCalls == 2
\* longest list of workflows given to download_workflows
MaxWorkflows == 3
\* download_simdata_modified calls a client makes (SpecAPI)
MaxDirect == 1

(***************************************************************************)
(* Program constants.                                                      *)
(***************************************************************************)
VARIANT == <<"wildtype_000000">>

METADATA_PATHNAME == <<"metadata", "/", "metadata.json">>

SIMDATA_MODIFIED_SUBPATH == <<"kb", "/", "simData_Modified.cPickle">>

SIM_FILES ==
    << <<"Mass", "/", "attributes.json">>,
       <<"Mass", "/", "cellMass">>,
       <<"Mass", "/", "dryMass">>,
       <<"Main", "/", "attributes.json">>,
       <<"Main", "/", "time">>,
       <<"MonomerCounts", "/", "attributes.json">>,
       <<"MonomerCounts", "/", "monomerCounts">> >>

\* the completion marker's file name (download.py line 156)
MARKER_NAME == <<"Daughter1_inherited_state.cPickle">>

\* the fields download_metadata reads, in the order it reads them
METADATA_FIELDS == <<"generations", "init_sims", "seed">>

(***************************************************************************)
(* Sequences and strings.                                                  *)
(***************************************************************************)
Range(s) == {s[i] : i \in 1..Len(s)}

Last(s) == s[Len(s)]

\* str.startswith
StartsWith(s, prefix) ==
    /\ Len(prefix) <= Len(s)
    /\ SubSeq(s, 1, Len(prefix)) = prefix

\* removeprefix(string, prefix)
removeprefix(string, prefix) ==
    IF StartsWith(string, prefix)
    THEN SubSeq(string, Len(prefix) + 1, Len(string))
    ELSE string

\* posixpath.join(a, b)
Join(a, b) ==
    IF b # <<>> /\ b[1] = "/" THEN b
    ELSE IF a = <<>> \/ Last(a) = "/" THEN a \o b
    ELSE a \o <<"/">> \o b

RECURSIVE ZeroPad(_, _)
ZeroPad(s, width) == IF Len(s) >= width THEN s ELSE ZeroPad("0" \o s, width)

\* format(n, '06d'): the sign counts in the width
Format06d(n) ==
    IF n < 0 THEN "-" \o ZeroPad(ToString(-n), 5) ELSE ZeroPad(ToString(n), 6)

\* f'generation_{gen:06d}'
GenerationName(gen) == "generation_" \o Format06d(gen)

\* the tokens the pattern  generation_\d{6}  matches
MatchesGeneration(tok) == tok \in {GenerationName(g) : g \in 0..(MaxGen + 1)}

\* all the orders in which a finite set can be enumerated (T is S, computed
\* once)
Orderings(S) ==
    UNION {{s \in [1..Cardinality(T) -> T] :
                \A x \in T : \E i \in DOMAIN s : s[i] = x} : T \in {S}}

(***************************************************************************)
(* The machine.                                                            *)
(***************************************************************************)
\* what os.cpu_count() may return: a single CPU, or as many as MaxCpus
CpuCounts == {1, MaxCpus}

(***************************************************************************)
(* The blob store (analysis/storage.py, CloudStorage).                     *)
(***************************************************************************)
\* storage.path_prefix: the storage root every relative path is resolved under
PATH_PREFIX == <<"WCM", "/", "workflow", "/">>

\* the name of seed directory number s under the variant: '00000s'
SeedName(s) == <<"0", "0000" \o ToString(s)>>

\* the relative path VARIANT/SEED/
SeedDir(s) == Join(VARIANT, SeedName(s)) \o <<"/">>

\* the completion marker's path below a seed directory (download.py 154-156)
Marker(max_gen) ==
    Join(Join(Join(<<GenerationName(max_gen)>>, <<"000000">>), <<"simOut">>),
         MARKER_NAME)

\* What a store may hold for one seed line: nothing (completed = -1), or the
\* directory object, the markers of the generations it completed, and
\* possibly one stray object whose name extends a marker's path.
SeedProfiles ==
    {[completed |-> -1, stray |-> -1]} \cup
    {p \in [completed : 0..MaxGen, stray : -1..(MaxGen - 1)] :
        p.stray \in {-1, p.completed - 1, p.completed}}

SeedBlobs(s, prof) ==
    IF prof.completed < 0 THEN {}
    ELSE {PATH_PREFIX \o SeedDir(s)}
         \cup {PATH_PREFIX \o Join(SeedDir(s), Marker(g)) :
                 g \in 0..(prof.completed - 1)}
         \cup (IF prof.stray >= 0
               THEN {PATH_PREFIX \o Join(SeedDir(s), Marker(prof.stray)) \o <<".bak">>}
               ELSE {})

\* the objects every store holds: the metadata and the variant's kb/ file
FixedBlobs ==
    {PATH_PREFIX \o METADATA_PATHNAME,
     PATH_PREFIX \o Join(VARIANT, <<"kb">>) \o <<"/">>,
     PATH_PREFIX \o Join(VARIANT, SIMDATA_MODIFIED_SUBPATH)}

StoreContents ==
    {FixedBlobs \cup UNION {SeedBlobs(s, f[s]) : s \in 1..MaxSeeds} :
        f \in [1..MaxSeeds -> SeedProfiles]}

\* the metadata records a store may hold: complete, or lacking one field
MetadataRecords ==
    {[f \in F |-> IF f = "generations" THEN g ELSE 1] :
        F \in {Range(METADATA_FIELDS)} \cup
              {Range(METADATA_FIELDS) \ {x} : x \in Range(METADATA_FIELDS)},
        g \in 0..MaxGen}

\* storage.list_blobs(prefix): the objects whose name starts with the prefix
\* (p is the full prefix, computed once)
list_blobs(store, prefix) ==
    UNION {{b \in store : StartsWith(b, p)} : p \in {PATH_PREFIX \o prefix}}

\* storage.list_blobs(prefix, star=True): of those, the immediate children:
\* nothing follows the prefix but one path segment and at most a final "/"
list_blobs_star(store, prefix) ==
    {b \in list_blobs(store, prefix) :
        \A i \in (Len(PATH_PREFIX \o prefix) + 1)..(Len(b) - 1) : b[i] # "/"}

(***************************************************************************)
(* The download queue: an insertion-ordered dict, modelled by its keys.    *)
(***************************************************************************)
\* a slip: re-adding a key moves it to the end of the dict
DictSetMoveToEnd(q, key) == Append(SelectSeq(q, LAMBDA k : k # key), key)

\* self.queue[key] = True
DictSet(q, key) == IF key \in Range(q) THEN q ELSE Append(q, key)

\* a slip: the key is never removed
DictDelNothing(q, key) == q

\* del self.queue[key]
DictDel(q, key) == SelectSeq(q, LAMBDA k : k # key)

\* a slip: the relative paths are queued without their sub_dir
RECURSIVE queue_files_unjoined(_, _, _)
queue_files_unjoined(q, sub_dir, relative_paths) ==
    IF relative_paths = <<>> THEN q
    ELSE queue_files_unjoined(DictSet(q, Head(relative_paths)),
                              sub_dir, Tail(relative_paths))

\* a slip: the loop stops after the first relative path
queue_files_first_only(q, sub_dir, relative_paths) ==
    IF relative_paths = <<>> THEN q
    ELSE DictSet(q, Join(sub_dir, Head(relative_paths)))

\* queue_files(sub_dir, relative_paths) on queue q
\* (q1 is bound rather than passed on as an expression so that the queue
\* is a value before the next turn of the loop, as it is in the program)
RECURSIVE queue_files(_, _, _)
queue_files(q, sub_dir, relative_paths) ==
    IF relative_paths = <<>> THEN q
    ELSE CHOOSE r \in {queue_files(q1, sub_dir, Tail(relative_paths)) :
                          q1 \in {DictSet(q, Join(sub_dir, Head(relative_paths)))}} :
            TRUE

\* a slip: the generation directory is left out of the path
SimOutNoGeneration(seed_dir, gen) == Join(Join(seed_dir, <<"000000">>), <<"simOut">>)

\* os.path.join(seed_dir, f'generation_{gen:06d}', '000000', 'simOut')
SimOut(seed_dir, gen) ==
    Join(Join(Join(seed_dir, <<GenerationName(gen)>>), <<"000000">>), <<"simOut">>)

\* for gen in range(gen, generations): queue_files(sim_out, SIM_FILES)
\* (q1 is bound rather than passed on as an expression so that the queue
\* is a value before the next turn of the loop, as it is in the program)
RECURSIVE QueueGenerations(_, _, _, _)
QueueGenerations(q, seed_dir, gen, gens) ==
    IF gen >= gens THEN q
    ELSE CHOOSE r \in {QueueGenerations(q1, seed_dir, gen + 1, gens) :
                          q1 \in {queue_files(q, sim_out, SIM_FILES) :
                                     sim_out \in {SimOut(seed_dir, gen)}}} :
            TRUE

\* for seed_dir in seed_dirs: for gen in range(generations): ...
RECURSIVE QueueSeedDirs(_, _, _)
QueueSeedDirs(q, dirs, gens) ==
    IF dirs = <<>> THEN q
    ELSE CHOOSE r \in {QueueSeedDirs(q1, Tail(dirs), gens) :
                          q1 \in {QueueGenerations(q, Head(dirs), 0, gens)}} :
            TRUE

(***************************************************************************)
(* Seed discovery.                                                         *)
(***************************************************************************)
\* the positions of name, after the storage prefix, holding generation_\d{6}
GenerationAt(name) ==
    {i \in (Len(PATH_PREFIX) + 1)..Len(name) : MatchesGeneration(name[i])}

\* r.match(b.name) is not None
RegexMatches(name) == StartsWith(name, PATH_PREFIX) /\ GenerationAt(name) # {}

\* r.match(b.name)[1]: (.*) is greedy, so it runs up to the last generation_\d{6}
RegexGroup1(name) ==
    LET last == CHOOSE i \in GenerationAt(name) : \A j \in GenerationAt(name) : j <= i
    IN  SubSeq(name, Len(PATH_PREFIX) + 1, last - 1)

\* the blobs one probe lists: list_blobs(os.path.join(seed, marker))
Probe(store, seed_path, max_gen) == list_blobs(store, Join(seed_path, Marker(max_gen)))

\* [r.match(b.name)[1] for b in it], for every order the listing may come in
ProbeDirs(store, seed_path, max_gen) ==
    {[i \in DOMAIN o |-> RegexGroup1(o[i])] :
        o \in Orderings(Probe(store, seed_path, max_gen))}

\* sum(dirs, []): the lists find_successful_seed_dirs may return for seed_paths
RECURSIVE SuccessfulSeedDirs(_, _, _)
SuccessfulSeedDirs(store, seeds, max_gen) ==
    IF seeds = <<>> THEN {<<>>}
    ELSE {a \o b : a \in ProbeDirs(store, Head(seeds), max_gen),
                   b \in SuccessfulSeedDirs(store, Tail(seeds), max_gen)}

\* seed_paths: the candidates, in each order the star listing may come in
SeedPaths(store) ==
    {[i \in DOMAIN o |-> removeprefix(o[i], PATH_PREFIX)] :
        o \in Orderings(list_blobs_star(store, Join(VARIANT, <<"0">>)))}

\* the stores of the whole runs of SpecRun:
\* one seed line at most, which completed at most MaxDone generations
RunStores ==
    {FixedBlobs \cup SeedBlobs(1, [completed |-> c, stray |-> -1]) :
        c \in -1..MaxDone}

\* the manifest files of every simOut directory, from the one at position
\* first of SIM_FILES on
ManifestFilesFrom(first) ==
    {Join(SimOut(SeedDir(s), g), SIM_FILES[k]) :
        s \in 1..MaxSeeds, g \in 0..(MaxGen - 1), k \in first..Len(SIM_FILES)}

\* the manifest files such a store cannot deliver: all but the first MaxHeld
\* of each simOut directory
BeyondHeld == ManifestFilesFrom(MaxHeld + 1)

\* discovery on this store, for this record, finds no seed directory
Stalled(store, record) ==
    "generations" \in DOMAIN record =>
        \A sp \in SeedPaths(store) : \A i \in DOMAIN sp :
            Probe(store, sp[i], record["generations"] - 1) = {}

(***************************************************************************)
(* State.                                                                  *)
(***************************************************************************)
VARIABLES
    blobs,           \* the store: the names of its objects
    metadata_json,   \* the store's metadata record: field -> value
    unfetchable,     \* the store: the paths it cannot deliver (no such object)
    cpu_count,       \* the machine: what os.cpu_count() returns
    pc,              \* where the main thread is
    queue,           \* self.queue: the keys, in insertion order
    count,           \* self.count
    generations,     \* self.generations
    init_sims,       \* self.init_sims
    seed,            \* self.seed
    seed_paths,      \* find_successful_seed_dirs: the candidates, in listing order
    seed_dirs,       \* download_all_needed_files: the discovered directories
    max_workers,     \* the executor's pool size
    future_to_path,  \* parallel_download: the submitted paths, in submission order
    task,            \* task[i]: where the worker running future i is
    loaded,          \* loaded[i]: the self.count future i's worker read
    processed,       \* the futures the as_completed loop has handled
    snapshot,        \* serial_download: dict(self.queue)
    idx,             \* serial_download: the position in snapshot
    result,          \* what download_all_needed_files returned, or <<>>
    attempts,        \* history: path -> the transfers attempted, oldest first
    queued0,         \* history: self.queue when parallel_download was called
    ncalls,          \* queue_files calls a client has made
    last_queued,     \* history: the paths the client's last call named
    workflows,       \* download_workflows: len(workflows)
    workflow,        \* download_workflows: the position in the list, from 1
    total,           \* download_workflows: its local variable count
    returned,        \* what download_workflows returned, or <<>>
    log              \* history: for each finished workflow, what its run returned

vars == <<blobs, metadata_json, unfetchable, cpu_count, pc, queue, count, generations, init_sims, seed,
          seed_paths, seed_dirs, max_workers, future_to_path, task, loaded,
          processed, snapshot, idx, result, attempts, queued0, ncalls,
          last_queued, workflows, workflow, total, returned, log>>

store_vars == <<blobs, metadata_json, unfetchable>>
env_vars == <<store_vars, cpu_count>>
meta_vars == <<generations, init_sims, seed>>
find_vars == <<seed_paths, seed_dirs>>
pool_vars == <<max_workers, future_to_path, task, loaded, processed>>
serial_vars == <<snapshot, idx>>
workflow_vars == <<workflows, workflow, total, returned, log>>
client_vars == <<ncalls, last_queued, workflow_vars>>

\* the transfers of path p so far
Att(att, p) == IF p \in DOMAIN att THEN att[p] ELSE <<>>

\* history: one more transfer of p, in the given phase, with the given outcome
Log(att, p, phase, ok) ==
    [q \in DOMAIN att \cup {p} |->
        IF q = p THEN Att(att, p) \o <<[phase |-> phase, ok |-> ok]>> ELSE att[q]]

\* self.storage.download_file(relative_path, local_path): the call returns
\* (TRUE) or raises (FALSE); for a path the store cannot deliver it raises
\* every time
TransferOutcomes(relative_path) ==
    IF relative_path \in unfetchable THEN {FALSE} ELSE BOOLEAN

\* DownloadSims.__init__
Constructed ==
    /\ queue = <<>>
    /\ count = 0
    /\ generations = 0
    /\ init_sims = 0
    /\ seed = 0
    /\ seed_paths = <<>>
    /\ seed_dirs = <<>>
    /\ max_workers = 0
    /\ future_to_path = <<>>
    /\ task = <<>>
    /\ loaded = <<>>
    /\ processed = {}
    /\ snapshot = <<>>
    /\ idx = 0
    /\ result = <<>>
    /\ attempts = <<>>
    /\ queued0 = <<>>
    /\ ncalls = 0
    /\ last_queued = {}

\* the DownloadSims was not made by download_workflows
Standalone ==
    /\ workflows = 0
    /\ workflow = 0
    /\ total = 0
    /\ returned = <<>>
    /\ log = <<>>

\* a fresh DownloadSims about to run download_all_needed_files on some store;
\* with nothing known to be undeliverable every transfer may return or raise,
\* so the runs on every other store are among these
Init ==
    /\ blobs \in StoreContents
    /\ metadata_json \in MetadataRecords
    /\ unfetchable = {}
    /\ cpu_count \in CpuCounts
    /\ pc = "start"
    /\ Constructed
    /\ Standalone

(***************************************************************************)
(* download_all_needed_files, up to the transfer phases.                   *)
(***************************************************************************)
\* a slip: metadata.get(field, old), which never raises
MetadataFieldGet(record, i, old) ==
    IF METADATA_FIELDS[i] \in DOMAIN record THEN record[METADATA_FIELDS[i]] ELSE old

\* the value of a metadata field, or the attribute's old value when a
\* KeyError on an earlier field (or this one) keeps it from being assigned
MetadataField(record, i, old) ==
    IF \A j \in 1..i : METADATA_FIELDS[j] \in DOMAIN record
    THEN record[METADATA_FIELDS[i]]
    ELSE old

\* count after download_file's  self.count += 1  in the main thread
Incremented(c) == c + 1

\* self.local_dir = os.path.join(local_dir or wcm_workflow_name, ''), for the
\* default local_dir
LOCAL_DIR == Join(<<PATH_PREFIX[3]>>, <<>>)

\* a slip: the file is written under its first path segment only
local_path_flat(relative_path) == Join(LOCAL_DIR, <<Head(relative_path)>>)

\* download_file: local_path = os.path.join(self.local_dir, relative_path)
local_path(relative_path) == Join(LOCAL_DIR, relative_path)

\* a slip: a metadata transfer that raised is tried once more before the
\* run is given up
download_metadata_retried ==
    /\ pc = "start"
    /\ \E ok \in TransferOutcomes(METADATA_PATHNAME) :
        /\ attempts' = Log(Log(attempts, METADATA_PATHNAME, 0, FALSE),
                           METADATA_PATHNAME, 0, ok)
        /\ IF ok
           THEN /\ count' = Incremented(count)
                /\ generations' = MetadataField(metadata_json, 1, generations)
                /\ init_sims' = MetadataField(metadata_json, 2, init_sims)
                /\ seed' = MetadataField(metadata_json, 3, seed)
                /\ pc' = IF Range(METADATA_FIELDS) \subseteq DOMAIN metadata_json
                         THEN "metadata" ELSE "raised:metadata"
           ELSE /\ pc' = "raised:transfer"
                /\ UNCHANGED <<count, meta_vars>>
    /\ UNCHANGED <<env_vars, queue, find_vars, pool_vars, serial_vars, result,
                   queued0, client_vars>>

\* generations = self.download_metadata(): the transfer may raise; a record
\* that lacks a field raises KeyError where that field is read
download_metadata ==
    /\ pc = "start"
    /\ \E ok \in TransferOutcomes(METADATA_PATHNAME) :
        /\ attempts' = Log(attempts, METADATA_PATHNAME, 0, ok)
        /\ IF ok
           THEN /\ count' = Incremented(count)
                /\ generations' = MetadataField(metadata_json, 1, generations)
                /\ init_sims' = MetadataField(metadata_json, 2, init_sims)
                /\ seed' = MetadataField(metadata_json, 3, seed)
                /\ pc' = IF Range(METADATA_FIELDS) \subseteq DOMAIN metadata_json
                         THEN "metadata" ELSE "raised:metadata"
           ELSE /\ pc' = "raised:transfer"
                /\ UNCHANGED <<count, meta_vars>>
    /\ UNCHANGED <<env_vars, queue, find_vars, pool_vars, serial_vars, result,
                   queued0, client_vars>>

\* self.queue_files(self.variant_name, [SIMDATA_MODIFIED_SUBPATH])
queue_simdata_modified ==
    /\ pc = "metadata"
    /\ queue' = queue_files(queue, VARIANT, <<SIMDATA_MODIFIED_SUBPATH>>)
    /\ pc' = "find"
    /\ UNCHANGED <<env_vars, count, meta_vars, find_vars, pool_vars,
                   serial_vars, result, attempts, queued0, client_vars>>

\* seed_dirs = self.find_successful_seed_dirs(generations - 1)
find_successful_seed_dirs ==
    /\ pc = "find"
    /\ \E sp \in SeedPaths(blobs) :
        /\ seed_paths' = sp
        /\ IF \A i \in DOMAIN sp :
                \A b \in Probe(blobs, sp[i], generations - 1) : RegexMatches(b)
           THEN /\ seed_dirs' \in SuccessfulSeedDirs(blobs, sp, generations - 1)
                /\ pc' = "expand"
           ELSE /\ seed_dirs' = seed_dirs
                /\ pc' = "raised:match"
    /\ UNCHANGED <<env_vars, queue, count, meta_vars, pool_vars, serial_vars,
                   result, attempts, queued0, client_vars>>

\* for seed_dir in seed_dirs: for gen in range(generations): queue_files(...)
queue_sim_files ==
    /\ pc = "expand"
    /\ queue' = QueueSeedDirs(queue, seed_dirs, generations)
    /\ pc' = "queued"
    /\ UNCHANGED <<env_vars, count, meta_vars, find_vars, pool_vars,
                   serial_vars, result, attempts, queued0, client_vars>>

(***************************************************************************)
(* parallel_download.  The worker threads run download_file; the main      *)
(* thread submits, then handles each finished future.                      *)
(***************************************************************************)
\* the futures whose task holds a worker thread
Busy == {i \in DOMAIN task : task[i] \in {"running", "incr", "store"}}

\* the futures that are done (returned or raised)
Done == {i \in DOMAIN task : task[i] \in {"ok", "failed"}}

\* ThreadPoolExecutor(max_workers=None): min(32, (os.cpu_count() or 1) + 4)
DefaultWorkers(cpus) == IF cpus + 4 < 32 THEN cpus + 4 ELSE 32

\* with cf.ThreadPoolExecutor(...) as executor: the pool size is the runtime's
parallel_download ==
    /\ pc = "queued"
    /\ max_workers' = DefaultWorkers(cpu_count)
    /\ queued0' = queue
    /\ future_to_path' = <<>>
    /\ task' = <<>>
    /\ loaded' = <<>>
    /\ processed' = {}
    /\ pc' = IF queue = <<>> THEN "as_completed" ELSE "submit"
    /\ UNCHANGED <<env_vars, queue, count, meta_vars, find_vars, serial_vars,
                   result, attempts, client_vars>>

\* executor.submit(fn, path), for the next path in self.queue
submit ==
    /\ pc = "submit"
    /\ future_to_path' = Append(future_to_path, queue[Len(future_to_path) + 1])
    /\ task' = Append(task, "pending")
    /\ loaded' = Append(loaded, 0)
    /\ pc' = IF Len(future_to_path') = Len(queue) THEN "as_completed" ELSE "submit"
    /\ UNCHANGED <<env_vars, queue, count, meta_vars, find_vars, max_workers,
                   processed, serial_vars, result, attempts, queued0, client_vars>>

\* a slip: a thread is started for every work item, whatever the pool size
MayStartUnbounded(i) == task[i] = "pending"

\* may a worker take work item i?  Items leave the work queue first-in first-out
MayStart(i) ==
    /\ task[i] = "pending"
    /\ \A j \in 1..(i - 1) : task[j] # "pending"
    /\ Cardinality(Busy) < max_workers

\* a free worker thread takes the oldest work item and calls download_file
worker_start(i) ==
    /\ pc \in {"submit", "as_completed"}
    /\ MayStart(i)
    /\ task' = [task EXCEPT ![i] = "running"]
    /\ UNCHANGED <<env_vars, pc, queue, count, meta_vars, find_vars,
                   max_workers, future_to_path, loaded, processed, serial_vars,
                   result, attempts, queued0, client_vars>>

\* a slip: the transfer's exception is swallowed inside download_file
TaskAfterTransferSwallowed(ok) == "incr"

\* where download_file goes on when the transfer has returned (ok) or raised
TaskAfterTransfer(ok) == IF ok THEN "incr" ELSE "failed"

\* self.storage.download_file(relative_path, local_path) returns or raises
worker_transfer(i) ==
    /\ pc \in {"submit", "as_completed"}
    /\ task[i] = "running"
    /\ \E ok \in TransferOutcomes(future_to_path[i]) :
        /\ task' = [task EXCEPT ![i] = TaskAfterTransfer(ok)]
        /\ attempts' = Log(attempts, future_to_path[i], 1, ok)
    /\ UNCHANGED <<env_vars, pc, queue, count, meta_vars, find_vars,
                   max_workers, future_to_path, loaded, processed, serial_vars,
                   result, queued0, client_vars>>

\* self.count += 1, first half: the worker reads self.count
worker_load(i) ==
    /\ pc \in {"submit", "as_completed"}
    /\ task[i] = "incr"
    /\ loaded' = [loaded EXCEPT ![i] = count]
    /\ task' = [task EXCEPT ![i] = "store"]
    /\ UNCHANGED <<env_vars, pc, queue, count, meta_vars, find_vars,
                   max_workers, future_to_path, processed, serial_vars, result,
                   attempts, queued0, client_vars>>

\* self.count += 1, second half: the worker writes the sum back and returns;
\* the value it had read is gone with the call
worker_store(i) ==
    /\ pc \in {"submit", "as_completed"}
    /\ task[i] = "store"
    /\ count' = loaded[i] + 1
    /\ task' = [task EXCEPT ![i] = "ok"]
    /\ loaded' = [loaded EXCEPT ![i] = 0]
    /\ UNCHANGED <<env_vars, pc, queue, meta_vars, find_vars, max_workers,
                   future_to_path, processed, serial_vars, result, attempts,
                   queued0, client_vars>>

\* a slip: the path is removed whether or not its transfer succeeded
AfterResultAlwaysDel(q, path, ok) == DictDel(q, path)

\* a slip: a path whose transfer failed is put back at the end of the queue
AfterResultRequeue(q, path, ok) ==
    IF ok THEN DictDel(q, path) ELSE Append(DictDel(q, path), path)

\* self.queue after the as_completed loop has handled a future for path
AfterResult(q, path, ok) == IF ok THEN DictDel(q, path) ELSE q

\* for future in cf.as_completed(future_to_path): one finished future
as_completed(i) ==
    /\ pc = "as_completed"
    /\ i \in Done \ processed
    /\ processed' = processed \cup {i}
    /\ IF task[i] = "ok" /\ future_to_path[i] \notin Range(queue)
       THEN /\ pc' = "raised:del"
            /\ queue' = queue
       ELSE /\ pc' = pc
            /\ queue' = AfterResult(queue, future_to_path[i], task[i] = "ok")
    /\ UNCHANGED <<env_vars, count, meta_vars, find_vars, max_workers,
                   future_to_path, task, loaded, serial_vars, result, attempts,
                   queued0, client_vars>>

\* a slip: parallel_download returns without waiting for the futures
parallel_done_nowait ==
    /\ pc = "as_completed"
    /\ pc' = "retry"
    /\ UNCHANGED <<env_vars, queue, count, meta_vars, find_vars, pool_vars,
                   serial_vars, result, attempts, queued0, client_vars>>

\* every future has been handled: the with block ends, parallel_download returns
parallel_done ==
    /\ pc = "as_completed"
    /\ processed = DOMAIN future_to_path
    /\ pc' = "retry"
    /\ UNCHANGED <<env_vars, queue, count, meta_vars, find_vars, pool_vars,
                   serial_vars, result, attempts, queued0, client_vars>>

(***************************************************************************)
(* serial_download: the main thread alone.                                 *)
(***************************************************************************)
\* queue = dict(self.queue)
serial_download ==
    /\ pc = "retry"
    /\ snapshot' = queue
    /\ idx' = 1
    /\ pc' = "serial"
    /\ UNCHANGED <<env_vars, queue, count, meta_vars, find_vars, pool_vars,
                   result, attempts, queued0, client_vars>>

\* a slip: the loop runs over self.queue itself, not over a copy of it
serial_attempt_live ==
    /\ pc = "serial"
    /\ idx <= Len(snapshot)
    /\ \E ok \in TransferOutcomes(snapshot[idx]) :
        /\ attempts' = Log(attempts, snapshot[idx], 2, ok)
        /\ count' = IF ok THEN Incremented(count) ELSE count
        /\ queue' = AfterResult(queue, snapshot[idx], ok)
        /\ snapshot' = AfterResult(queue, snapshot[idx], ok)
    /\ idx' = idx + 1
    /\ UNCHANGED <<env_vars, pc, meta_vars, find_vars, pool_vars, result,
                   queued0, client_vars>>

\* one turn of  for path in queue: try download_file(path) ... else del
serial_attempt ==
    /\ pc = "serial"
    /\ idx <= Len(snapshot)
    /\ \E ok \in TransferOutcomes(snapshot[idx]) :
        /\ attempts' = Log(attempts, snapshot[idx], 2, ok)
        /\ count' = IF ok THEN Incremented(count) ELSE count
        /\ IF ok /\ snapshot[idx] \notin Range(queue)
           THEN /\ pc' = "raised:del"
                /\ queue' = queue
           ELSE /\ pc' = pc
                /\ queue' = AfterResult(queue, snapshot[idx], ok)
    /\ idx' = idx + 1
    /\ UNCHANGED <<env_vars, meta_vars, find_vars, pool_vars, snapshot,
                   result, queued0, client_vars>>

\* the loop is over: serial_download returns, download_all_needed_files
\* prints the summary and returns self.count
return_count ==
    /\ pc = "serial"
    /\ idx > Len(snapshot)
    /\ result' = <<count>>
    /\ pc' = "returned"
    /\ UNCHANGED <<env_vars, queue, count, meta_vars, find_vars, pool_vars,
                   serial_vars, attempts, queued0, client_vars>>

\* the steps of the pool's threads
Workers ==
    \E i \in DOMAIN task :
        worker_start(i) \/ worker_transfer(i) \/ worker_load(i) \/ worker_store(i)

\* parallel_download, thread step by thread step
Stepwise ==
    \/ parallel_download
    \/ submit
    \/ Workers
    \/ \E i \in DOMAIN task : as_completed(i)
    \/ parallel_done

\* serial_download, and the return of download_all_needed_files
Serial ==
    \/ serial_download
    \/ serial_attempt
    \/ return_count

Transfers == Stepwise \/ Serial

\* download_all_needed_files from its first line to its call of
\* parallel_download: the metadata, the discovery, the building of the queue
Queueing ==
    \/ download_metadata
    \/ queue_simdata_modified
    \/ find_successful_seed_dirs
    \/ queue_sim_files

\* the runs of download_all_needed_files up to that call, on every store
SpecQueueing == Init /\ [][Queueing]_vars

\* download_all_needed_files: the queue is built, then transferred
Next == Queueing \/ Transfers

Spec == Init /\ [][Next]_vars

(***************************************************************************)
(* Whole runs of download_all_needed_files.                                *)
(***************************************************************************)
\* a fresh DownloadSims about to run on a store where no seed line has
\* reached the record's last generation
InitStalled == Init /\ Stalled(blobs, metadata_json)

SpecStalled == InitStalled /\ [][Next]_vars

\* a fresh DownloadSims about to run on a store whose seed line completed at
\* most MaxDone generations and which delivers, of each simOut directory,
\* the first MaxHeld manifest files at most
InitRun ==
    /\ blobs \in RunStores
    /\ metadata_json \in MetadataRecords
    /\ unfetchable = BeyondHeld
    /\ cpu_count \in CpuCounts
    /\ pc = "start"
    /\ Constructed
    /\ Standalone

SpecRun == InitRun /\ [][Next]_vars

\* the steps of the thread that called download_all_needed_files
MainThread ==
    \/ Queueing
    \/ parallel_download
    \/ submit
    \/ \E i \in DOMAIN task : as_completed(i)
    \/ parallel_done
    \/ Serial

\* the same runs when every transfer call returns or raises and the threads
\* are scheduled fairly: neither the main thread nor the pool's threads
\* are held back for ever when they can take a step
FairRun == SpecRun /\ WF_vars(MainThread) /\ WF_vars(Workers)

(***************************************************************************)
(* download_for_mialy.py, download_workflows: one DownloadSims after the   *)
(* other, each on its own workflow's store.                                *)
(***************************************************************************)
\* the stores of the workflows: no seed line, or one that ran a generation;
\* they deliver the metadata and the variant's file, and no manifest file
WorkflowStores ==
    {FixedBlobs \cup SeedBlobs(1, [completed |-> c, stray |-> -1]) :
        c \in {-1, MaxDone}}

\* their metadata records: one generation; complete, or lacking a field
WorkflowRecords ==
    {r \in MetadataRecords : "generations" \in DOMAIN r => r["generations"] = 1}

\* a slip: count = ds.download_all_needed_files()
AccumulatedLast(c, n) == n

\* count += ds.download_all_needed_files()
Accumulated(c, n) == c + n

\* download_workflows has been called with a list of workflows
InitWorkflows ==
    /\ blobs = {}
    /\ metadata_json = <<>>
    /\ unfetchable = {}
    /\ cpu_count = 1
    /\ pc = "loop"
    /\ Constructed
    /\ workflows \in 0..MaxWorkflows
    /\ workflow = 0
    /\ total = 0
    /\ returned = <<>>
    /\ log = <<>>

\* for workflow in workflows: ds = DownloadSims(...), and the call of
\* ds.download_all_needed_files()
new_DownloadSims ==
    /\ pc = "loop"
    /\ workflow < workflows
    /\ workflow' = workflow + 1
    /\ blobs' \in WorkflowStores
    /\ metadata_json' \in WorkflowRecords
    /\ unfetchable' = ManifestFilesFrom(1)
    /\ queue' = <<>>
    /\ count' = 0
    /\ generations' = 0
    /\ init_sims' = 0
    /\ seed' = 0
    /\ seed_paths' = <<>>
    /\ seed_dirs' = <<>>
    /\ max_workers' = 0
    /\ future_to_path' = <<>>
    /\ task' = <<>>
    /\ loaded' = <<>>
    /\ processed' = {}
    /\ snapshot' = <<>>
    /\ idx' = 0
    /\ result' = <<>>
    /\ attempts' = <<>>
    /\ queued0' = <<>>
    /\ pc' = "start"
    /\ UNCHANGED <<cpu_count, ncalls, last_queued, workflows, total, returned,
                   log>>

\* count += (what the call returned); an exception is not caught here, so a
\* run that raised ends download_workflows too
count_workflow ==
    /\ pc = "returned"
    /\ total' = Accumulated(total, result[1])
    /\ log' = Append(log, [workflow |-> workflow, count |-> result[1],
                           left |-> Len(queue)])
    /\ pc' = "loop"
    /\ UNCHANGED <<env_vars, queue, count, meta_vars, find_vars, pool_vars,
                   serial_vars, result, attempts, queued0, ncalls, last_queued,
                   workflows, workflow, returned>>

\* the list is exhausted: return count
workflows_return ==
    /\ pc = "loop"
    /\ workflow = workflows
    /\ returned' = <<total>>
    /\ pc' = "workflows_returned"
    /\ UNCHANGED <<env_vars, queue, count, meta_vars, find_vars, pool_vars,
                   serial_vars, result, attempts, queued0, ncalls, last_queued,
                   workflows, workflow, total, log>>

NextWorkflows ==
    Next \/ new_DownloadSims \/ count_workflow \/ workflows_return

SpecWorkflows == InitWorkflows /\ [][NextWorkflows]_vars

(***************************************************************************)
(* A client that fills the queue itself with queue_files and then runs the *)
(* two transfer phases, as download_all_needed_files does from line 183.   *)
(***************************************************************************)
\* the arguments the client passes to queue_files
ClientSubDirs == {<<"a">>, <<"a", "/">>}

ClientNames == {<<"f">>, <<"g">>, <<"h">>}

ClientPathLists ==
    {<<x>> : x \in ClientNames} \cup {<<x, y>> : x \in ClientNames, y \in ClientNames}

InitAPI ==
    /\ blobs = {}
    /\ metadata_json = <<>>
    /\ unfetchable = {}
    /\ cpu_count \in CpuCounts
    /\ pc = "queued"
    /\ Constructed
    /\ Standalone

client_queue_files ==
    /\ pc = "queued"
    /\ ncalls < MaxCalls
    /\ \E sub_dir \in ClientSubDirs, relative_paths \in ClientPathLists :
        /\ queue' = queue_files(queue, sub_dir, relative_paths)
        /\ last_queued' = {Join(sub_dir, p) : p \in Range(relative_paths)}
    /\ ncalls' = ncalls + 1
    /\ UNCHANGED <<env_vars, pc, count, meta_vars, find_vars, pool_vars,
                   serial_vars, result, attempts, queued0, workflow_vars>>

\* ds.download_simdata_modified(): the variant's simData_Modified.cPickle is
\* transferred at once by download_file, which counts it; nothing is queued,
\* and an exception of the transfer goes to the caller
download_simdata_modified ==
    /\ pc = "queued"
    /\ Len(Att(attempts, Join(VARIANT, SIMDATA_MODIFIED_SUBPATH))) < MaxDirect
    /\ \E ok \in TransferOutcomes(Join(VARIANT, SIMDATA_MODIFIED_SUBPATH)) :
        /\ attempts' = Log(attempts, Join(VARIANT, SIMDATA_MODIFIED_SUBPATH), 0, ok)
        /\ count' = IF ok THEN Incremented(count) ELSE count
        /\ pc' = IF ok THEN pc ELSE "raised:transfer"
    /\ UNCHANGED <<env_vars, queue, meta_vars, find_vars, pool_vars,
                   serial_vars, result, queued0, client_vars>>

\* the client's queues are short (at most three paths): their Phase 1 is
\* followed step by step
NextAPI == client_queue_files \/ download_simdata_modified \/ Stepwise \/ Serial

SpecAPI == InitAPI /\ [][NextAPI]_vars

(***************************************************************************)
(* A client on a single-CPU machine that queues one file more than the     *)
(* pool has threads, then runs the two transfer phases.                    *)
(***************************************************************************)
\* the relative paths '1', '2', ... : one more than the smallest pool
ManyPaths == [i \in 1..(DefaultWorkers(1) + 1) |-> <<ToString(i)>>]

InitPool ==
    /\ blobs = {}
    /\ metadata_json = <<>>
    /\ unfetchable = {}
    /\ cpu_count = 1
    /\ pc = "queued"
    /\ Constructed
    /\ Standalone

\* ds.queue_files('a', ['1', '2', ...])
client_queue_many ==
    /\ pc = "queued"
    /\ ncalls = 0
    /\ queue' = queue_files(queue, <<"a">>, ManyPaths)
    /\ last_queued' = {Join(<<"a">>, p) : p \in Range(ManyPaths)}
    /\ ncalls' = ncalls + 1
    /\ UNCHANGED <<env_vars, pc, count, meta_vars, find_vars, pool_vars,
                   serial_vars, result, attempts, queued0, workflow_vars>>

NextPool == client_queue_many \/ Stepwise \/ Serial

SpecPool == InitPool /\ [][NextPool]_vars

\* the same, with the pool's threads scheduled fairly
FairPool == SpecPool /\ WF_vars(Workers)

(***************************************************************************)
(* Vocabulary of the properties.                                           *)
(***************************************************************************)
NoDup(s) == \A i, j \in DOMAIN s : s[i] = s[j] => i = j

IsPrefix(s, t) == Len(s) <= Len(t) /\ SubSeq(t, 1, Len(s)) = s

\* the successful transfers among a path's attempts
NumOk(a) == Cardinality({k \in DOMAIN a : a[k].ok})

RECURSIVE SumOk(_, _)
SumOk(att, S) ==
    IF S = {} THEN 0
    ELSE LET p == CHOOSE x \in S : TRUE
         IN  NumOk(att[p]) + SumOk(att, S \ {p})

\* the transfer calls that have completed successfully so far
Successes == SumOk(attempts, DOMAIN attempts)

\* every transfer of p so far failed, and there was at least one
AllFailed(p) == Att(attempts, p) # <<>> /\ NumOk(Att(attempts, p)) = 0

FAILED1 == <<[phase |-> 1, ok |-> FALSE]>>
RETRIED_OK == <<[phase |-> 1, ok |-> FALSE], [phase |-> 2, ok |-> TRUE]>>
FAILED_TWICE == <<[phase |-> 1, ok |-> FALSE], [phase |-> 2, ok |-> FALSE]>>
FETCHED1 == <<[phase |-> 1, ok |-> TRUE]>>

MetadataRaised == pc \in {"raised:transfer", "raised:metadata"}

\* download_all_needed_files has returned or raised
Terminated ==
    pc \in {"returned", "raised:transfer", "raised:metadata", "raised:match",
            "raised:del"}

\* parallel_download has been called
PhasesStarted ==
    pc \in {"submit", "as_completed", "retry", "serial", "returned", "raised:del"}

\* find_successful_seed_dirs has returned
PostFind ==
    pc \in {"expand", "queued", "submit", "as_completed", "retry", "serial",
            "returned", "raised:del"}

SimDataPath == Join(VARIANT, SIMDATA_MODIFIED_SUBPATH)

\* the text  seed_dir + 'generation_00000g/000000/simOut/' + m
SimFilePath(d, g, m) ==
    d \o <<GenerationName(g), "/", "000000", "/", "simOut", "/">> \o m

\* the paths a run may fetch, given what it has read and discovered so far
Universe ==
    {METADATA_PATHNAME, SimDataPath} \cup
    {SimFilePath(d, g, m) :
        d \in Range(seed_dirs), g \in 0..(generations - 1), m \in Range(SIM_FILES)}

\* the transfers attempted so far, over all paths
RECURSIVE SumLen(_, _)
SumLen(att, S) ==
    IF S = {} THEN 0
    ELSE LET p == CHOOSE x \in S : TRUE
         IN  Len(att[p]) + SumLen(att, S \ {p})

TotalAttempts == SumLen(attempts, DOMAIN attempts)

\* s holds some of the entries of t, in the order they have in t
IsSubSeq(s, t) == s = SelectSeq(t, LAMBDA x : x \in Range(s))

\* where a queue entry is, given whether it is queued and its transfers
EntryState(q, att, p) ==
    IF p \notin Range(q) THEN "removed"
    ELSE IF Att(att, p) = FAILED_TWICE THEN "permanently-failed"
    ELSE IF Att(att, p) = FAILED1 THEN "pending-retry"
    ELSE "pending"

\* the moves the entry state machine allows
EntryMoves ==
    {<<"pending", "removed">>, <<"pending", "pending-retry">>,
     <<"pending-retry", "removed">>, <<"pending-retry", "permanently-failed">>}

\* the sum of the counts the finished workflows' runs returned
RECURSIVE SumCounts(_)
SumCounts(l) == IF l = <<>> THEN 0 ELSE Head(l).count + SumCounts(Tail(l))

\* the paths with a transfer attempted in the given phase
AttemptedIn(phase) ==
    {p \in DOMAIN attempts : \E k \in DOMAIN attempts[p] : attempts[p][k].phase = phase}

(***************************************************************************)
(* C1.  After parallel_download then serial_download, every path that was  *)
(* queued is either removed from the queue, and then one of its transfers  *)
(* succeeded, or still in the queue, and then each of its transfers        *)
(* failed; no path is lost, none is in the queue twice, none was added.    *)
(***************************************************************************)
C1_RemovedOrPresent ==
    pc = "returned" =>
        /\ \A p \in Range(queued0) :
            /\ Att(attempts, p) # <<>>
            /\ p \in Range(queue) <=> NumOk(Att(attempts, p)) = 0
            /\ p \notin Range(queue) <=> NumOk(Att(attempts, p)) >= 1
        /\ Range(queue) \subseteq Range(queued0)
        /\ NoDup(queue)

C1_Witness ==
    /\ pc = "returned"
    /\ Len(queued0) = 3
    /\ Len(queue) = 1
    /\ \E p \in Range(queued0) : Att(attempts, p) = RETRIED_OK
    /\ \E p \in Range(queued0) : Att(attempts, p) = FETCHED1

(***************************************************************************)
(* C2.  The count download_all_needed_files returns is the number of       *)
(* transfer calls that completed successfully, whatever the interleaving   *)
(* of the Phase-1 workers.                                                 *)
(***************************************************************************)
C2_CountIsSuccesses == pc = "returned" => result = <<Successes>>

(***************************************************************************)
(* C3.  A queued path is transferred at most twice: once in Phase 1, and   *)
(* once more, in Phase 2, exactly when its Phase-1 transfer failed; the    *)
(* retry adds one to the count when it succeeds and nothing when it fails, *)
(* and the failed first transfer added nothing.                            *)
(***************************************************************************)
C3_Attempts ==
    /\ AttemptedIn(1) \cup AttemptedIn(2) \subseteq Range(queued0)
    /\ \A p \in Range(queued0) :
        Att(attempts, p) \in {<<>>, FETCHED1, FAILED1, RETRIED_OK, FAILED_TWICE}
    /\ pc \in {"retry", "serial", "returned"} =>
            \A p \in Range(queued0) : Att(attempts, p) # <<>>
    /\ pc = "returned" =>
            \A p \in Range(queued0) : ~attempts[p][1].ok => Len(attempts[p]) = 2

C3_Counted ==
    \A p \in DOMAIN attempts' :
        LET before == Att(attempts, p)
            after == attempts'[p]
        IN  /\ (Len(before) = 1 /\ Len(after) = 2) =>
                    count' = IF after[2].ok THEN count + 1 ELSE count
            /\ (before = <<>> /\ after = FAILED1) => count' = count

\* C3: every history is one Phase-1 transfer, then one Phase-2 transfer
\* exactly when the first failed, and each step counts a retry exactly once
C3_AtMostTwice == [](C3_Attempts) /\ [][C3_Counted]_vars

C3_Witness ==
    /\ pc = "returned"
    /\ \E p \in Range(queued0) : Att(attempts, p) = RETRIED_OK
    /\ \E p \in Range(queued0) : Att(attempts, p) = FETCHED1
    /\ \E p \in Range(queued0) : Att(attempts, p) = FAILED_TWICE

(***************************************************************************)
(* C4.  As claimed: before the transfer phases the queue holds the         *)
(* metadata file, the per-variant file and seeds x generations x manifest  *)
(* entries.                                                                *)
(***************************************************************************)
C4_Original ==
    pc = "queued" =>
        /\ Len(queue) =
             1 + 1 + Cardinality(Range(seed_dirs)) * generations * Len(SIM_FILES)
        /\ NoDup(queue)

(***************************************************************************)
(* C4, amended.  The metadata file is transferred directly and is never    *)
(* queued: before the transfer phases the queue holds 1 (per-variant file) *)
(* + distinct seed directories x generations x manifest entries, all       *)
(* distinct paths.                                                         *)
(***************************************************************************)
C4_QueueSize ==
    pc = "queued" =>
        /\ Len(queue) =
             1 + Cardinality(Range(seed_dirs)) * generations * Len(SIM_FILES)
        /\ NoDup(queue)
        /\ METADATA_PATHNAME \notin Range(queue)
        /\ Att(attempts, METADATA_PATHNAME) = <<[phase |-> 0, ok |-> TRUE]>>

C4_Witness ==
    /\ pc = "queued"
    /\ generations = 2
    /\ Cardinality(Range(seed_dirs)) = 2
    /\ Len(queue) = 29

(***************************************************************************)
(* C5.  queue_files is idempotent per path: the queue never holds a path   *)
(* twice; a call keeps the entries already there, in their order, and adds *)
(* only the new paths; a call that names only pending paths changes        *)
(* nothing.                                                                *)
(***************************************************************************)
C5_Call ==
    ncalls' # ncalls =>
        /\ IsPrefix(queue, queue')
        /\ Range(queue') = Range(queue) \cup last_queued'
        /\ last_queued' \subseteq Range(queue) => queue' = queue

\* C5: no path is ever queued twice, and every queue_files call keeps the
\* pending entries in place and adds only the paths that were not pending
C5_Idempotent == [](NoDup(queue)) /\ [][C5_Call]_vars

C5_Witness == pc = "queued" /\ ncalls = 2 /\ Len(queue) = 1

(***************************************************************************)
(* C6.  A failed transfer never aborts the run: nothing is raised, a path  *)
(* whose transfers all failed is still in the queue, the counter never     *)
(* exceeds the number of successful transfers, every queued path has been  *)
(* attempted by the end, and a count is returned.                          *)
(***************************************************************************)
C6_FailureKept ==
    /\ pc # "raised:del"
    /\ \A p \in Range(queued0) : AllFailed(p) => p \in Range(queue)
    /\ count <= Successes
    /\ pc = "returned" =>
        /\ result = <<count>>
        /\ \A p \in Range(queued0) : Att(attempts, p) # <<>>

C6_Witness ==
    /\ pc = "returned"
    /\ \E p \in Range(queue) : Att(attempts, p) = FAILED_TWICE
    /\ \E p \in Range(queued0) : Att(attempts, p) = FETCHED1
    /\ result = <<1>>

(***************************************************************************)
(* C7.  As claimed: when the metadata transfer fails or the record lacks a *)
(* field, the run aborts with nothing queued, no other transfer, no seed   *)
(* discovery, and the counter and the generation count not advanced.       *)
(***************************************************************************)
C7_Original ==
    MetadataRaised =>
        /\ queue = <<>>
        /\ DOMAIN attempts = {METADATA_PATHNAME}
        /\ seed_paths = <<>>
        /\ count = 0
        /\ generations = 0

(***************************************************************************)
(* C7, amended.  The run aborts before seed discovery with nothing queued  *)
(* and no other transfer.  When the transfer itself failed, the counter    *)
(* and the three fields keep their initial 0.  When the file arrived but   *)
(* lacks a field, the counter is 1 and the fields read before the missing  *)
(* one hold the record's values.  The run goes on only with all three      *)
(* fields read from the record.                                            *)
(***************************************************************************)
C7_MetadataFatal ==
    /\ MetadataRaised =>
        /\ queue = <<>>
        /\ DOMAIN attempts = {METADATA_PATHNAME}
        /\ Len(attempts[METADATA_PATHNAME]) = 1
        /\ seed_paths = <<>> /\ seed_dirs = <<>>
        /\ future_to_path = <<>> /\ result = <<>>
    /\ pc = "raised:transfer" =>
        /\ ~attempts[METADATA_PATHNAME][1].ok
        /\ count = 0 /\ generations = 0 /\ init_sims = 0 /\ seed = 0
    /\ pc = "raised:metadata" =>
        /\ attempts[METADATA_PATHNAME][1].ok
        /\ ~(Range(METADATA_FIELDS) \subseteq DOMAIN metadata_json)
        /\ count = 1
        /\ generations = IF "generations" \in DOMAIN metadata_json
                         THEN metadata_json["generations"] ELSE 0
        /\ init_sims = IF {"generations", "init_sims"} \subseteq DOMAIN metadata_json
                       THEN metadata_json["init_sims"] ELSE 0
        /\ seed = 0
    /\ pc \notin {"start", "raised:transfer", "raised:metadata"} =>
        /\ Range(METADATA_FIELDS) \subseteq DOMAIN metadata_json
        /\ attempts[METADATA_PATHNAME] = <<[phase |-> 0, ok |-> TRUE]>>
        /\ generations = metadata_json["generations"]

C7_Witness ==
    /\ pc = "raised:metadata"
    /\ count = 1
    /\ generations = 2
    /\ "seed" \notin DOMAIN metadata_json

(***************************************************************************)
(* C8.  find_successful_seed_dirs returns exactly the candidates whose     *)
(* completion marker exists at the exact target-generation path.           *)
(***************************************************************************)
C8_ExactMarker ==
    PostFind =>
        Range(seed_dirs) =
            {sp \in Range(seed_paths) :
                PATH_PREFIX \o Join(sp, Marker(generations - 1)) \in blobs}

(***************************************************************************)
(* C9.  The list find_successful_seed_dirs returns has no duplicate and is *)
(* in the order the candidates were enumerated.                            *)
(***************************************************************************)
C9_OrderedNoDup ==
    PostFind =>
        /\ NoDup(seed_dirs)
        /\ \A i, j \in DOMAIN seed_dirs :
            i < j =>
                \E m, n \in DOMAIN seed_paths :
                    m < n /\ seed_paths[m] = seed_dirs[i] /\ seed_paths[n] = seed_dirs[j]

(***************************************************************************)
(* C10.  When discovery finds no qualifying seed the run raises nothing,   *)
(* and the paths transferred in the whole run are exactly the metadata     *)
(* file and the variant's simData_Modified.cPickle.                        *)
(***************************************************************************)
C10_NoSeeds ==
    (PostFind /\ seed_dirs = <<>>) =>
        /\ pc # "raised:del"
        /\ queue \in {<<>>, <<SimDataPath>>}
        /\ DOMAIN attempts \subseteq {METADATA_PATHNAME, SimDataPath}
        /\ pc \in {"retry", "serial", "returned"} =>
                DOMAIN attempts = {METADATA_PATHNAME, SimDataPath}

C10_Witness ==
    /\ pc = "returned"
    /\ seed_dirs = <<>>
    /\ seed_paths # <<>>
    /\ generations = 2
    /\ result = <<2>>

(***************************************************************************)
(* C11.  At every moment of a run the paths whose transfer has been        *)
(* attempted are among the metadata file, the variant's simData_Modified   *)
(* file and seed_dir/generation_g/000000/simOut/m for the discovered       *)
(* seed_dirs, 0 <= g < generations and m in SIM_FILES.  At the call of     *)
(* parallel_download every one of those paths has been attempted or is     *)
(* queued, the tasks of Phase 1 are for exactly the queued ones, and from  *)
(* the end of Phase 1 on every one of those paths has been attempted.      *)
(***************************************************************************)
C11_Universe ==
    /\ DOMAIN attempts \subseteq Universe
    /\ pc = "queued" =>
            /\ DOMAIN attempts = {METADATA_PATHNAME}
            /\ Universe = {METADATA_PATHNAME} \cup Range(queue)
    /\ PhasesStarted => Universe = {METADATA_PATHNAME} \cup Range(queued0)
    /\ pc \in {"retry", "serial", "returned"} => Universe \subseteq DOMAIN attempts

\* a run that discovered a seed directory has returned: the nine paths of
\* its universe were all attempted, the first manifest file was fetched in
\* Phase 2 and the last one failed in both phases
C11_Witness ==
    /\ pc = "returned"
    /\ Len(seed_dirs) = 1
    /\ Cardinality(Universe) = 2 + Len(SIM_FILES)
    /\ DOMAIN attempts = Universe
    /\ attempts[SimFilePath(seed_dirs[1], 0, SIM_FILES[1])] = RETRIED_OK
    /\ attempts[SimFilePath(seed_dirs[1], 0, Last(SIM_FILES))] = FAILED_TWICE

(***************************************************************************)
(* C12.  Removing successes from the live queue is safe in every           *)
(* interleaving of the Phase-1 tasks.  Only the main thread changes the    *)
(* queue, and never in a step of a worker; the queue does not change while *)
(* it is iterated (Phase 1 has submitted a task for every entry before the *)
(* first removal; Phase 2 iterates a copy taken when it starts, which      *)
(* stays as taken); so Phase 1 attempts exactly the paths queued when it   *)
(* started and Phase 2 exactly the paths queued when it started.           *)
(***************************************************************************)
C12_Phases ==
    /\ pc = "submit" => queue = queued0 /\ IsPrefix(future_to_path, queue)
    /\ pc = "as_completed" => future_to_path = queued0
    /\ pc \in {"retry", "serial", "returned"} => AttemptedIn(1) = Range(queued0)
    /\ pc = "serial" =>
            AttemptedIn(2) = {snapshot[k] : k \in {n \in DOMAIN snapshot : n < idx}}
    /\ pc = "returned" => AttemptedIn(2) = Range(snapshot)
    /\ pc \notin {"serial", "returned"} => AttemptedIn(2) = {}

C12_Step ==
    /\ queue' # queue =>
            \/ ncalls' # ncalls
            \/ pc = "as_completed" /\ processed' # processed
                    /\ task' = task /\ loaded' = loaded /\ count' = count
            \/ pc = "serial" /\ idx' = idx + 1 /\ Busy = {}
    /\ pc = "submit" => queue' = queue
    /\ (pc = "retry" /\ pc' = "serial") => snapshot' = queue
    /\ pc = "serial" => snapshot' = snapshot

\* C12: the queue is changed only by main-thread steps, never while it is
\* iterated, and the copy Phase 2 iterates stays as taken
C12_QueueSafe == [](C12_Phases) /\ [][C12_Step]_vars

\* the main thread has removed a success while a worker is still transferring
C12_Witness ==
    /\ pc = "as_completed"
    /\ Len(queued0) = 3
    /\ Len(queue) = 2
    /\ \E i \in DOMAIN task : task[i] = "running"
    /\ \E i \in DOMAIN task : task[i] = "pending"

(***************************************************************************)
(* C13.  Phase 2 starts only when every Phase-1 task has finished and its  *)
(* result has been handled: from then on no worker holds a task, a Phase-2 *)
(* transfer is made only by the main thread with no Phase-1 transfer in    *)
(* flight, one at a time, and no Phase-1 transfer follows a Phase-2 one.   *)
(***************************************************************************)
C13_Drained ==
    pc \in {"retry", "serial", "returned"} =>
        /\ DOMAIN task = DOMAIN queued0
        /\ \A i \in DOMAIN task : task[i] \in {"ok", "failed"}
        /\ processed = DOMAIN task
        /\ Busy = {}

C13_Transfer ==
    (TotalAttempts' # TotalAttempts /\ pc # "queued") =>
        /\ TotalAttempts' = TotalAttempts + 1
        /\ IF pc = "serial"
           THEN /\ Busy = {} /\ task' = task
                /\ AttemptedIn(1)' = AttemptedIn(1)
                /\ idx' = idx + 1
           ELSE /\ pc \in {"submit", "as_completed"}
                /\ AttemptedIn(2)' = {}
                /\ Cardinality(Busy) <= max_workers

\* C13: Phase 2 runs with no Phase-1 task unfinished or unhandled, and its
\* transfers are made one at a time by the main thread
C13_PhaseOrder == [](C13_Drained) /\ [][C13_Transfer]_vars

\* Phase 2 is at its second path after a Phase 1 of three tasks
C13_Witness ==
    /\ pc = "serial"
    /\ idx = 2
    /\ Len(snapshot) = 2
    /\ Len(queued0) = 3
    /\ Cardinality(AttemptedIn(2)) = 1

(***************************************************************************)
(* C14.  Once the transfer phases have started, every queue entry moves    *)
(* only pending -> removed, pending -> pending-retry, pending-retry ->     *)
(* removed or pending-retry -> permanently-failed: the queue only loses    *)
(* entries and keeps the others in order, a removed path was fetched and   *)
(* never comes back, and a path that failed in Phase 2 stays queued and is *)
(* not transferred again.                                                  *)
(***************************************************************************)
C14_Entries ==
    PhasesStarted =>
        /\ IsSubSeq(queue, queued0)
        /\ \A p \in Range(queued0) :
            /\ EntryState(queue, attempts, p) = "removed" =>
                    Last(attempts[p]).ok /\ NumOk(attempts[p]) = 1
            /\ EntryState(queue, attempts, p) = "pending" =>
                    Att(attempts, p) \in {<<>>, FETCHED1}
            /\ EntryState(queue, attempts, p) = "pending-retry" =>
                    pc \in {"submit", "as_completed", "retry", "serial"}
            /\ pc = "returned" =>
                    EntryState(queue, attempts, p) \in {"removed", "permanently-failed"}

C14_Move ==
    PhasesStarted =>
        /\ queued0' = queued0
        /\ IsSubSeq(queue', queue)
        /\ \A p \in Range(queued0) :
            LET before == EntryState(queue, attempts, p)
                after == EntryState(queue', attempts', p)
            IN  /\ before = after \/ <<before, after>> \in EntryMoves
                /\ before \in {"removed", "permanently-failed"} =>
                        Att(attempts', p) = Att(attempts, p)
                /\ <<before, after>> = <<"pending", "pending-retry">> =>
                        pc \in {"submit", "as_completed"}
                /\ before = "pending-retry" /\ after # before => pc = "serial"

\* C14: every queue entry is in one of the five states and moves only along
\* the four listed transitions
C14_EntryMachine == [](C14_Entries) /\ [][C14_Move]_vars

\* Phase 2 has retried two paths: one was fetched and removed, one failed again
C14_Witness ==
    /\ pc = "serial"
    /\ idx = 3
    /\ Len(queued0) = 3
    /\ \E p \in Range(queued0) : EntryState(queue, attempts, p) = "permanently-failed"
    /\ \E p \in Range(queued0) :
            EntryState(queue, attempts, p) = "removed" /\ attempts[p] = RETRIED_OK
    /\ \E p \in Range(queued0) :
            EntryState(queue, attempts, p) = "removed" /\ attempts[p] = FETCHED1

(***************************************************************************)
(* C15.  The Phase-1 tasks can run in any interleaving: the tasks write to *)
(* pairwise different local paths (local_dir joined with the relative      *)
(* path, which keeps the relative path readable in the result), and the    *)
(* queue left by each phase is the paths queued at the start whose         *)
(* transfers failed, in their queued order, whatever the order in which    *)
(* the tasks ran and completed.                                            *)
(***************************************************************************)
C15_Disjoint ==
    /\ \A i, j \in DOMAIN future_to_path :
            i # j => local_path(future_to_path[i]) # local_path(future_to_path[j])
    /\ \A p \in Range(queue) :
            /\ StartsWith(local_path(p), LOCAL_DIR)
            /\ removeprefix(local_path(p), LOCAL_DIR) = p
    /\ pc = "retry" =>
            queue = SelectSeq(queued0, LAMBDA p : ~attempts[p][1].ok)
    /\ pc = "returned" =>
            queue = SelectSeq(queued0, LAMBDA p : NumOk(attempts[p]) = 0)

\* the second task has finished and been removed while the first and the
\* third are both transferring
C15_Witness ==
    /\ pc = "as_completed"
    /\ Len(future_to_path) = 3
    /\ task[1] = "running"
    /\ task[2] = "ok"
    /\ 2 \in processed
    /\ task[3] = "running"
    /\ queue = <<future_to_path[1], future_to_path[3]>>

(***************************************************************************)
(* C16.  Phase 1 submits one task per queued entry, in queue order, to a   *)
(* pool of max_workers threads: at every moment at most max_workers        *)
(* transfers are in flight, also when more paths are queued than the pool  *)
(* has threads, and with the threads scheduled fairly every submitted task *)
(* is eventually taken by a thread and runs to its end: time and again     *)
(* every task submitted so far has finished.                               *)
(***************************************************************************)
C16_Bounded ==
    /\ Cardinality(Busy) <= max_workers
    /\ pc = "submit" => IsPrefix(future_to_path, queued0)
    /\ pc \in {"as_completed", "retry", "serial", "returned"} =>
            future_to_path = queued0
    /\ NoDup(future_to_path)
    /\ DOMAIN task = DOMAIN future_to_path
    /\ \A i \in DOMAIN task :
            task[i] # "pending" => Att(attempts, future_to_path[i]) # <<>>
                                    \/ task[i] = "running"

\* every task submitted so far has run to its end
C16_AllRun == \A i \in DOMAIN task : task[i] \in {"ok", "failed"}

\* C16: one task per queued entry, at most max_workers transfers in flight,
\* and under fair scheduling every submitted task runs to its end
C16_BoundedPool == [](C16_Bounded) /\ []<>(C16_AllRun)

\* more tasks than threads: every thread is busy and the last task waits
C16_Witness ==
    /\ pc = "as_completed"
    /\ Len(future_to_path) = max_workers + 1
    /\ Cardinality(Busy) = max_workers
    /\ task[Len(task)] = "pending"

(***************************************************************************)
(* C17.  When every transfer call returns or raises and the threads are    *)
(* scheduled fairly, download_all_needed_files terminates (it returns or   *)
(* raises) and does nothing afterwards; it attempts at most                *)
(* 1 + 2 x (queue size at the start of Phase 1) transfers, and when it     *)
(* returns it has attempted 1 + that size + the number of Phase-1          *)
(* failures: one per queued path and one retry per failure.                *)
(***************************************************************************)
C17_Bound ==
    /\ TotalAttempts <= 1 + 2 * Len(queued0)
    /\ pc \in {"start", "metadata", "find", "expand", "queued"} => TotalAttempts <= 1
    /\ pc = "returned" =>
            TotalAttempts =
                1 + Len(queued0)
                  + Cardinality({p \in Range(queued0) : ~attempts[p][1].ok})

\* C17: the run makes at most 1 + 2 x (Phase-1 queue size) transfers, ends
\* under fair scheduling, and takes no step after it has ended
C17_Terminates ==
    /\ [](C17_Bound)
    /\ <>Terminated
    /\ [][~Terminated]_vars

\* a run that queued eight paths has returned after 1 + 2 x 8 transfers:
\* every queued path failed in both phases
C17_Witness ==
    /\ pc = "returned"
    /\ Len(queued0) = 1 + Len(SIM_FILES)
    /\ TotalAttempts = 1 + 2 * Len(queued0)
    /\ queue = queued0

(***************************************************************************)
(* C18.  download_workflows takes the workflows one at a time in list      *)
(* order; each run starts on a DownloadSims with an empty queue, a zero    *)
(* counter and no transfer made, whatever the earlier runs left; it        *)
(* returns the sum of what the runs returned.  When a run raises (the      *)
(* metadata transfer failed, or the record lacks a field) nothing more     *)
(* happens: no later workflow is started and nothing is returned.  A run   *)
(* that left paths in its queue still returns and the next one starts.     *)
(***************************************************************************)
C18_Sum ==
    /\ workflow <= workflows
    /\ Len(log) = (IF pc \in {"loop", "workflows_returned"}
                   THEN workflow ELSE workflow - 1)
    /\ \A i \in DOMAIN log : log[i].workflow = i
    /\ total = SumCounts(log)
    /\ pc = "start" =>
            /\ queue = <<>> /\ count = 0 /\ attempts = <<>>
            /\ generations = 0 /\ init_sims = 0 /\ seed = 0
            /\ future_to_path = <<>> /\ result = <<>>
    /\ pc = "workflows_returned" =>
            returned = <<SumCounts(log)>> /\ Len(log) = workflows
    /\ pc # "workflows_returned" => returned = <<>>
    /\ MetadataRaised => DOMAIN attempts = {METADATA_PATHNAME}

C18_Step ==
    /\ pc \notin {"raised:transfer", "raised:metadata", "raised:match",
                  "raised:del", "workflows_returned"}
    /\ workflow' # workflow =>
            /\ workflow' = workflow + 1
            /\ log' = log
            /\ Len(log) = workflow
    /\ log' # log =>
            /\ log' = Append(log, [workflow |-> workflow, count |-> result[1],
                                   left |-> Len(queue)])
            /\ total' = total + result[1]
    /\ pc = "returned" => pc' = "loop"

\* C18: the total is the sum of the counts of the runs that returned, each
\* run starts fresh, and a run that raises ends the whole call
C18_Workflows == [](C18_Sum) /\ [][C18_Step]_vars

\* the first run, on a store with a completed seed line, fetched two files
\* and left the seven manifest files it could not fetch; the second run
\* raised, and the third workflow was never started
C18_Witness ==
    /\ workflows = 3
    /\ workflow = 2
    /\ pc = "raised:metadata"
    /\ Len(log) = 1
    /\ log[1].left = Len(SIM_FILES)
    /\ log[1].count = 2
    /\ total = 2

====
